---- MODULE Spec2Model ----
(***************************************************************************)
(* Model of parallel_examples/awsbatch/do_stitch.py: the finalization      *)
(* stage of the tiled segmentation pipeline.  main() is a straight-line    *)
(* script; pc is its position, every other variable is a Python variable   *)
(* of main(), the blob store, or the log of calls made on the external     *)
(* collaborators (boto3 S3 client, GDAL, pyshepseg tiling/tilingstats).    *)
(* An exception is never caught in main(): it ends the run (pc = "failed").*)
(***************************************************************************)
EXTENDS Integers, Sequences, FiniteSets, TLC

VARIABLES
    pc,               \* position of main()
    cmdargs,          \* parsed command line (getCmdargs)
    pickled,          \* content of the preparation-state blob in the store
    store,            \* blob store: bucket -> set of keys present
    calls,            \* log of calls on external collaborators, in order
    error,            \* the exception that ended the run, if any
    dataFromPickle,   \* line 81
    tempDir,          \* line 87: "unset" | "exists" | "removed"
    tileFilenames,    \* line 91: dict in insertion order
    localDs,          \* line 103: "unset" | "open" | "closed"
    maxSegId,         \* line 103
    objs,             \* lines 109, 191: list of keys to delete
    concurrencyStyle, \* lines 135, 142
    bucket,           \* lines 148, 160
    statsKey,         \* line 148
    spatialstatsKey,  \* line 160
    dataForStats,     \* lines 153, 165
    idx               \* number of tuples of dataForStats already processed

vars == <<pc, cmdargs, pickled, store, calls, error, dataFromPickle, tempDir,
          tileFilenames, localDs, maxSegId, objs, concurrencyStyle, bucket,
          statsKey, spatialstatsKey, dataForStats, idx>>

-----------------------------------------------------------------------------
(* Bounds of the model *)

\* longest statistics-request document (tuples)
MaxTuples == 2
\* longest coordinate list of the tile naming specification
MaxTiles == 2
\* largest tile key set of the batching specification
MaxKeys == 2500
\* width of the tile grid the large coordinate lists are cut from
GridWidth == 50

(* Program constants *)

\* objs[0:1000], del objs[0:1000]
BatchLimit == 1000

-----------------------------------------------------------------------------
(* Optional values: None is the empty sequence, Some(x) a one-element one *)

None == <<>>
Some(x) == <<x>>

Range(s) == {s[i] : i \in DOMAIN s}

Min(a, b) == IF a < b THEN a ELSE b

-----------------------------------------------------------------------------
(* Text.  A text the program splits is a sequence of chunks: a chunk is    *)
(* either a separator character or a run of text free of separators.       *)

Digits == <<"0", "1", "2", "3", "4", "5", "6", "7", "8", "9">>

RECURSIVE FormatNat(_)
FormatNat(n) ==
    IF n < 10 THEN Digits[n + 1]
    ELSE FormatNat(n \div 10) \o Digits[(n % 10) + 1]

\* '{}'.format(n) for an int
FormatInt(n) == IF n < 0 THEN "-" \o FormatNat(0 - n) ELSE FormatNat(n)

RECURSIVE SplitFrom(_, _, _, _)
SplitFrom(s, sep, i, cur) ==
    IF i > Len(s) THEN <<cur>>
    ELSE IF s[i] = sep THEN <<cur>> \o SplitFrom(s, sep, i + 1, "")
    ELSE SplitFrom(s, sep, i + 1, cur \o s[i])

\* str.split(sep): the pieces between the separators, empty pieces kept
Split(s, sep) == SplitFrom(s, sep, 1, "")

RECURSIVE Join(_, _)
\* sep.join(parts)
Join(parts, sep) ==
    IF Len(parts) = 0 THEN ""
    ELSE IF Len(parts) = 1 THEN parts[1]
    ELSE parts[1] \o sep \o Join(Tail(parts), sep)

RECURSIVE Concat(_)
\* the text of a chunk sequence
Concat(s) == IF Len(s) = 0 THEN "" ELSE s[1] \o Concat(Tail(s))

-----------------------------------------------------------------------------
(* Fixed command line values and store layout *)

Bucket == "bkt"
OtherBucket == "other"
Buckets == {Bucket, OtherBucket}
TilePrefix == "run1"
PickleKey == "prep.pkl"
InFile == "in.tif"
OutFile == "out/seg.kea"
StatsDocKey == "stats.json"
SpatialDocKey == "spatial.json"
StatsReadWorkers == {4}
TimeoutChoices == {None, Some(0), Some(30)}

\* --stats / --spatialstats values: absent, bucket:key in either bucket, or
\* a value without the ':' separator
DocArgs(key) ==
    {None,
     Some(<<Bucket, ":", key>>),
     Some(<<OtherBucket, ":", key>>)}
MalformedDocArg == Some(<<StatsDocKey>>)

-----------------------------------------------------------------------------
(* Tile names *)

\* the naming scheme of the upstream tiling stage (do_tile.py)
UpstreamTileKey(prefix, col, row) ==
    prefix \o "_" \o FormatInt(col) \o "_" \o FormatInt(row) \o ".tif"

\* '{}_{}{}.{}': the separator between column and row left out
FormatTileNameNoSep(prefix, col, row) ==
    prefix \o "_" \o FormatInt(col) \o FormatInt(row) \o "." \o "tif"

\* '{}_{}_{}.{}'.format(prefix, col, row, 'tif')
FormatTileName(prefix, col, row) ==
    prefix \o "_" \o FormatInt(col) \o "_" \o FormatInt(row) \o "." \o "tif"

\* '/vsis3/' + bucket + '/' + key
VsiPath(b, key) == "/vsis3/" \o b \o "/" \o key

\* the keys of a dict filled by assigning d[k] for k in list, in insertion
\* order: the first occurrence of every element
DictKeyOrder(list) ==
    IF Cardinality(Range(list)) = Len(list) THEN list
    ELSE LET first == {i \in DOMAIN list : \A j \in 1..(i - 1) : list[j] # list[i]}
             \* the n-th smallest index of first
             nth[n \in 1..Cardinality(first)] ==
                 CHOOSE i \in first : Cardinality({j \in first : j < i}) = n - 1
         IN  [n \in 1..Cardinality(first) |-> list[nth[n]]]

\* lines 91-95: tileFilenames after the loop over colRowList
ResolveTileFilenames(args, colRowList) ==
    LET keys == DictKeyOrder(colRowList)
    IN  [i \in 1..Len(keys) |->
            [coord |-> keys[i],
             filename |-> VsiPath(args.bucket,
                 FormatTileName(args.tileprefix, keys[i][1], keys[i][2]))]]

\* the /vsis3/ filenames handed to delete_objects in place of the keys
TileObjsFullPath(args, tiles) == [i \in 1..Len(tiles) |-> tiles[i].filename]

\* the keys built by a second pass over colRowList in place of the pass over
\* the keys of tileFilenames
TileObjsFromList(args, tiles) ==
    [i \in 1..Len(dataFromPickle[1].colRowList) |->
        FormatTileName(args.tileprefix, dataFromPickle[1].colRowList[i][1],
                       dataFromPickle[1].colRowList[i][2])]

\* lines 109-112: the object keys to delete, one per entry of tileFilenames
TileObjs(args, tiles) ==
    [i \in 1..Len(tiles) |->
        FormatTileName(args.tileprefix, tiles[i].coord[1], tiles[i].coord[2])]

\* objs[0:1001]: the slice end taken as inclusive
FirstBatchOffByOne(list) == SubSeq(list, 1, Min(BatchLimit + 1, Len(list)))

\* objs[0:1000]
FirstBatch(list) == SubSeq(list, 1, Min(BatchLimit, Len(list)))

\* del objs[0:999]: one key fewer removed than was sent
DropBatchShort(list) == SubSeq(list, Min(BatchLimit - 1, Len(list)) + 1, Len(list))

\* del objs[0:0]: the slice that was sent is not removed
DropBatchNothing(list) == SubSeq(list, 1, Len(list))

\* del objs[0:1000]
DropBatch(list) == SubSeq(list, Min(BatchLimit, Len(list)) + 1, Len(list))

\* os.path.join(tempDir, os.path.basename(cmdargs.outfile))
LocalOutfile == "/tmp/tmpdir/seg.kea"

-----------------------------------------------------------------------------
(* Inputs *)

CoordValues == {-1, 1, 11}

\* the coordinate lists of the pipeline specification: none, the 2 x 2 grid,
\* and a list that repeats a coordinate
PipelineLists ==
    {<<>>,
     <<<<0, 0>>, <<0, 1>>, <<1, 0>>, <<1, 1>>>>,
     <<<<0, 0>>, <<0, 1>>, <<0, 0>>>>}

\* every list of at most MaxTiles coordinates over CoordValues
SmallLists ==
    UNION {[1..n -> CoordValues \X CoordValues] : n \in 0..MaxTiles}

\* the first k coordinates of a grid GridWidth wide, row by row
GridList(k) == [i \in 1..k |-> <<(i - 1) % GridWidth, (i - 1) \div GridWidth>>]

\* key set sizes around the batch limit
BatchKeyCounts ==
    {0, 1, BatchLimit - 1, BatchLimit, BatchLimit + 1, 2 * BatchLimit, MaxKeys}

BatchLists == {GridList(k) : k \in BatchKeyCounts}

AggTuple(i) == [img |-> "img.tif", bandnum |-> i, selection |-> "mean"]

\* aggregate request documents: 0..MaxTuples tuples, told apart by band
AggDocs == {[i \in 1..n |-> AggTuple(i)] : n \in 0..MaxTuples}

\* importable modules and the attributes they define
ModuleAttrs ==
    [m \in {"mypkg", "mypkg.sub"} |->
        IF m = "mypkg" THEN {"myfunc", "sub"} ELSE {"other"}]

\* callback names: resolvable, no separator, function missing, module not
\* importable, nested module path
FuncNames ==
    {<<"mypkg", ".", "myfunc">>,
     <<"myfunc">>,
     <<"mypkg", ".", "nofunc">>,
     <<"nopkg", ".", "myfunc">>,
     <<"mypkg", ".", "sub", ".", "other">>}

SpatialTuple(i, name) ==
    [img |-> "img.tif", bandnum |-> i, colInfo |-> "variogram",
     userFuncName |-> name, param |-> i]

\* spatial request documents: 0..MaxTuples tuples over the given names
SpatialDocs(names) ==
    UNION {{[i \in 1..n |-> SpatialTuple(i, f[i])] : f \in [1..n -> names]}
           : n \in 0..MaxTuples}

-----------------------------------------------------------------------------
(* Initial state: the command line is parsed, nothing has run.  The store  *)
(* holds what the earlier stages left: the preparation state, the tiles    *)
(* named by the upstream scheme, and the request documents.                *)

CmdArgs(statsArgs, spatialArgs) ==
    [bucket : {Bucket}, infile : {InFile}, outfile : {OutFile},
     tileprefix : {TilePrefix}, pickle : {PickleKey}, overlapsize : {8},
     stats : statsArgs, spatialstats : spatialArgs,
     nogdalstats : BOOLEAN, noremove : BOOLEAN,
     statsreadworkers : StatsReadWorkers,
     readworkerstimeouts : TimeoutChoices]

InitialStore(list) ==
    [b \in Buckets |->
        IF b = Bucket
        THEN {PickleKey, InFile, StatsDocKey, SpatialDocKey}
             \cup {UpstreamTileKey(TilePrefix, c[1], c[2]) : c \in Range(list)}
        ELSE {StatsDocKey, SpatialDocKey}]

NoError == [type |-> "", msg |-> <<>>]

InitOf(lists, statsArgs, spatialArgs) ==
    /\ pc = "fetch"
    /\ cmdargs \in CmdArgs(statsArgs, spatialArgs)
    /\ pickled \in {[colRowList |-> l, tileInfo |-> "tileInfo"] : l \in lists}
    /\ store = InitialStore(pickled.colRowList)
    /\ calls = <<>>
    /\ error = NoError
    /\ dataFromPickle = None
    /\ tempDir = "unset"
    /\ tileFilenames = <<>>
    /\ localDs = "unset"
    /\ maxSegId = None
    /\ objs = <<>>
    /\ concurrencyStyle = None
    /\ bucket = None
    /\ statsKey = None
    /\ spatialstatsKey = None
    /\ dataForStats = <<>>
    /\ idx = 0

-----------------------------------------------------------------------------
(* Steps of main() *)

Entry(op, ok, b, keys, info) ==
    [op |-> op, ok |-> ok, bucket |-> b, keys |-> keys, info |-> info]

\* the exception is caught where it is raised and the stage runs again
RaiseAndRetry(type, msg) ==
    /\ pc' = pc
    /\ error' = [type |-> type, msg |-> msg]

\* an uncaught exception: main() is left, nothing after the raise runs
Raise(type, msg) ==
    /\ pc' = "failed"
    /\ error' = [type |-> type, msg |-> msg]

\* s3.delete_objects(Bucket=b, Delete={'Objects': keys}) has returned
Deleted(st, b, keys) == [st EXCEPT ![b] = @ \ Range(keys)]

\* lines 76-81: download the pickled preparation state and unpickle it
FetchState ==
    /\ pc = "fetch"
    /\ \E outcome \in {"ok", "TransferError", "DeserializationError"} :
        /\ calls' = Append(calls,
               Entry("download",
                     outcome # "TransferError"
                         /\ cmdargs.pickle \in store[cmdargs.bucket],
                     cmdargs.bucket, <<cmdargs.pickle>>, None))
        /\ IF outcome = "ok" /\ cmdargs.pickle \in store[cmdargs.bucket]
           THEN /\ dataFromPickle' = Some(pickled)
                /\ pc' = "open"
                /\ UNCHANGED error
           ELSE /\ Raise(IF cmdargs.pickle \in store[cmdargs.bucket]
                         THEN outcome ELSE "TransferError", <<>>)
                /\ UNCHANGED dataFromPickle
    /\ UNCHANGED <<cmdargs, pickled, store, tempDir, tileFilenames, localDs,
                   maxSegId, objs, concurrencyStyle, bucket, statsKey,
                   spatialstatsKey, dataForStats, idx>>

\* lines 84-85: open the input raster through /vsis3/
OpenInput ==
    /\ pc = "open"
    /\ \E ok \in BOOLEAN :
        /\ calls' = Append(calls,
               Entry("gdal.Open", ok, cmdargs.bucket, <<cmdargs.infile>>,
                     VsiPath(cmdargs.bucket, cmdargs.infile)))
        /\ IF ok
           THEN pc' = "resolve" /\ UNCHANGED error
           ELSE Raise("OpenError", <<>>)
    /\ UNCHANGED <<cmdargs, pickled, store, dataFromPickle, tempDir,
                   tileFilenames, localDs, maxSegId, objs, concurrencyStyle,
                   bucket, statsKey, spatialstatsKey, dataForStats, idx>>

\* lines 87-98: make the temporary directory, name the tiles
ResolveTiles ==
    /\ pc = "resolve"
    /\ tempDir' = "exists"
    /\ tileFilenames' =
           ResolveTileFilenames(cmdargs, dataFromPickle[1].colRowList)
    /\ pc' = "finalize"
    /\ UNCHANGED <<cmdargs, pickled, store, calls, error, dataFromPickle,
                   localDs, maxSegId, objs, concurrencyStyle, bucket, statsKey,
                   spatialstatsKey, dataForStats, idx>>

\* the tiles the Finalization Engine can read: those present in the store
TilesPresent(tiles, st) ==
    LET paths == UNION {{VsiPath(b, k) : k \in st[b]} : b \in Buckets}
    IN  \A i \in DOMAIN tiles : tiles[i].filename \in paths

\* lines 103-105: tiling.doTiledShepherdSegmentation_finalize
Finalize ==
    /\ pc = "finalize"
    /\ \E ok \in BOOLEAN :
        LET done == ok /\ TilesPresent(tileFilenames, store)
        IN  /\ calls' = Append(calls,
                   Entry("finalize", done, cmdargs.bucket, <<>>,
                         [outfile |-> LocalOutfile,
                          tiles |-> tileFilenames,
                          tileInfo |-> dataFromPickle[1].tileInfo,
                          overlapsize |-> cmdargs.overlapsize,
                          writeHistogram |-> TRUE]))
            /\ IF done
               THEN /\ localDs' = "open"
                    /\ maxSegId' = Some(Len(tileFilenames))
                    /\ pc' = "tilecleanup"
                    /\ UNCHANGED error
               ELSE /\ Raise("FinalizationError", <<>>)
                    /\ UNCHANGED <<localDs, maxSegId>>
    /\ UNCHANGED <<cmdargs, pickled, store, dataFromPickle, tempDir,
                   tileFilenames, objs, concurrencyStyle, bucket, statsKey,
                   spatialstatsKey, dataForStats, idx>>

\* the loop written test-last: the first delete is sent before len(objs) is
\* looked at
TileCleanupTestLast ==
    /\ pc = "tilecleanup"
    /\ IF cmdargs.noremove
       THEN pc' = "gdalstats" /\ UNCHANGED <<objs, calls, store, error>>
       ELSE /\ objs' = TileObjs(cmdargs, tileFilenames)
            /\ IF Len(objs') > 0
               THEN pc' = "deleteloop" /\ UNCHANGED <<calls, store, error>>
               ELSE /\ calls' = Append(calls,
                           Entry("delete", TRUE, cmdargs.bucket,
                                 FirstBatch(objs'), "tiles"))
                    /\ pc' = "gdalstats"
                    /\ UNCHANGED <<store, error>>
    /\ UNCHANGED <<cmdargs, pickled, dataFromPickle, tempDir, tileFilenames,
                   localDs, maxSegId, concurrencyStyle, bucket, statsKey,
                   spatialstatsKey, dataForStats, idx>>

\* lines 108-115: the keep-intermediates test, and the list of tile keys
TileCleanup ==
    /\ pc = "tilecleanup"
    /\ IF cmdargs.noremove
       THEN pc' = "gdalstats" /\ UNCHANGED objs
       ELSE /\ objs' = TileObjs(cmdargs, tileFilenames)
            /\ pc' = IF Len(objs') > 0 THEN "deleteloop" ELSE "gdalstats"
    /\ UNCHANGED <<cmdargs, pickled, store, calls, error, dataFromPickle,
                   tempDir, tileFilenames, localDs, maxSegId, concurrencyStyle,
                   bucket, statsKey, spatialstatsKey, dataForStats, idx>>

\* the delete wrapped in a try/except that passes: a failed batch is dropped
\* from objs and the loop goes on
DeleteBatchContinueOnError ==
    /\ pc = "deleteloop"
    /\ Len(objs) > 0
    /\ \E ok \in BOOLEAN :
        /\ calls' = Append(calls,
               Entry("delete", ok, cmdargs.bucket, FirstBatch(objs), "tiles"))
        /\ store' = IF ok
                    THEN Deleted(store, cmdargs.bucket, FirstBatch(objs))
                    ELSE store
        /\ objs' = DropBatch(objs)
        /\ pc' = IF Len(objs') > 0 THEN "deleteloop" ELSE "gdalstats"
        /\ UNCHANGED error
    /\ UNCHANGED <<cmdargs, pickled, dataFromPickle, tempDir, tileFilenames,
                   localDs, maxSegId, concurrencyStyle, bucket, statsKey,
                   spatialstatsKey, dataForStats, idx>>

\* lines 115-117: one turn of the while loop, and its next test
DeleteBatch ==
    /\ pc = "deleteloop"
    /\ Len(objs) > 0
    /\ \E ok \in BOOLEAN :
        /\ calls' = Append(calls,
               Entry("delete", ok, cmdargs.bucket, FirstBatch(objs), "tiles"))
        /\ IF ok
           THEN /\ store' = Deleted(store, cmdargs.bucket, FirstBatch(objs))
                /\ objs' = DropBatch(objs)
                /\ pc' = IF Len(objs') > 0 THEN "deleteloop" ELSE "gdalstats"
                /\ UNCHANGED error
           ELSE /\ Raise("TransferError", <<>>)
                /\ UNCHANGED <<store, objs>>
    /\ UNCHANGED <<cmdargs, pickled, dataFromPickle, tempDir, tileFilenames,
                   localDs, maxSegId, concurrencyStyle, bucket, statsKey,
                   spatialstatsKey, dataForStats, idx>>

\* the overviews built before the colour table is written
DefaultStatsOpsSwapped ==
    <<"readHistogram", "estimateStatsFromHisto", "addOverviews",
      "writeRandomColourTable">>

\* the GDAL calls of lines 120-129, in order
DefaultStatsOps ==
    <<"readHistogram", "estimateStatsFromHisto", "writeRandomColourTable",
      "addOverviews">>

\* lines 119-129: GDAL statistics, colour table and overviews; the first n
\* calls return and the next one, if any, raises
DefaultStats ==
    /\ pc = "gdalstats"
    /\ IF cmdargs.nogdalstats
       THEN pc' = "close" /\ UNCHANGED <<calls, error>>
       ELSE \E n \in 0..Len(DefaultStatsOps) :
            LET made == Min(n + 1, Len(DefaultStatsOps))
            IN  /\ calls' = calls \o
                       [i \in 1..made |->
                           Entry(DefaultStatsOps[i], i <= n, cmdargs.bucket, <<>>,
                                 [handle |-> localDs,
                                  size |-> maxSegId[1] + 1])]
                /\ IF n = Len(DefaultStatsOps)
                   THEN pc' = "close" /\ UNCHANGED error
                   ELSE Raise("RasterError", <<>>)
    /\ UNCHANGED <<cmdargs, pickled, store, dataFromPickle, tempDir,
                   tileFilenames, localDs, maxSegId, objs, concurrencyStyle,
                   bucket, statsKey, spatialstatsKey, dataForStats, idx>>

\* line 132 left out: the dataset stays open
CloseLocalDsMissing ==
    /\ pc = "close"
    /\ pc' = "concurrency"
    /\ UNCHANGED <<cmdargs, pickled, store, calls, error, dataFromPickle,
                   tempDir, tileFilenames, localDs, maxSegId, objs,
                   concurrencyStyle, bucket, statsKey, spatialstatsKey,
                   dataForStats, idx>>

\* line 132: del localDs, the only reference to the dataset
CloseLocalDs ==
    /\ pc = "close"
    /\ localDs' = "closed"
    /\ pc' = "concurrency"
    /\ UNCHANGED <<cmdargs, pickled, store, calls, error, dataFromPickle,
                   tempDir, tileFilenames, maxSegId, objs, concurrencyStyle,
                   bucket, statsKey, spatialstatsKey, dataForStats, idx>>

\* the test written "if cmdargs.readworkerstimeouts:", false for a timeout of 0
MakeStyleTruthy(args) ==
    IF args.readworkerstimeouts # None /\ args.readworkerstimeouts # Some(0)
    THEN [numReadWorkers |-> args.statsreadworkers,
          readBufferPopTimeout |-> args.readworkerstimeouts,
          readBufferInsertTimeout |-> args.readworkerstimeouts,
          computeBufferInsertTimeout |-> args.readworkerstimeouts,
          computeBufferPopTimeout |-> args.readworkerstimeouts]
    ELSE [numReadWorkers |-> args.statsreadworkers,
          readBufferPopTimeout |-> None,
          readBufferInsertTimeout |-> None,
          computeBufferInsertTimeout |-> None,
          computeBufferPopTimeout |-> None]

\* lines 134-143: applier.ConcurrencyStyle(...); a field left out of the
\* call keeps the engine's default (None here)
MakeStyle(args) ==
    IF args.readworkerstimeouts # None
    THEN [numReadWorkers |-> args.statsreadworkers,
          readBufferPopTimeout |-> args.readworkerstimeouts,
          readBufferInsertTimeout |-> args.readworkerstimeouts,
          computeBufferInsertTimeout |-> args.readworkerstimeouts,
          computeBufferPopTimeout |-> args.readworkerstimeouts]
    ELSE [numReadWorkers |-> args.statsreadworkers,
          readBufferPopTimeout |-> None,
          readBufferInsertTimeout |-> None,
          computeBufferInsertTimeout |-> None,
          computeBufferPopTimeout |-> None]

ConcurrencyConfig ==
    /\ pc = "concurrency"
    /\ concurrencyStyle' = Some(MakeStyle(cmdargs))
    /\ pc' = "stats"
    /\ UNCHANGED <<cmdargs, pickled, store, calls, error, dataFromPickle,
                   tempDir, tileFilenames, localDs, maxSegId, objs, bucket,
                   statsKey, spatialstatsKey, dataForStats, idx>>

\* handles on the output raster while the Statistics Engine runs: the one it
\* opens itself, and localDs if that is still open
HandlesDuringStats == 1 + (IF localDs = "open" THEN 1 ELSE 0)

\* lines 146-153: locate, download and parse the aggregate request document
AggStart(docs) ==
    /\ pc = "stats"
    /\ IF cmdargs.stats = None
       THEN /\ pc' = "spatial"
            /\ UNCHANGED <<calls, error, bucket, statsKey, dataForStats, idx>>
       ELSE LET parts == Split(cmdargs.stats[1], ":")
            IN  IF Len(parts) # 2
                THEN /\ Raise("ValueError", <<"unpack">>)
                     /\ UNCHANGED <<calls, bucket, statsKey, dataForStats, idx>>
                ELSE /\ bucket' = Some(parts[1])
                     /\ statsKey' = Some(parts[2])
                     /\ \E outcome \in {"ok", "TransferError",
                                        "DeserializationError"} :
                         LET found == parts[1] \in Buckets
                                      /\ parts[2] \in store[parts[1]]
                         IN  /\ IF found /\ outcome = "ok"
                                THEN \E doc \in docs :
                                     /\ calls' = Append(calls,
                                            Entry("download", TRUE, parts[1],
                                                  <<parts[2]>>, Some(doc)))
                                     /\ dataForStats' = doc
                                     /\ idx' = 0
                                     /\ pc' = IF Len(doc) > 0 THEN "statsloop"
                                              ELSE "spatial"
                                     /\ UNCHANGED error
                                ELSE /\ calls' = Append(calls,
                                            Entry("download",
                                                  found /\ outcome
                                                      # "TransferError",
                                                  parts[1], <<parts[2]>>,
                                                  None))
                                     /\ Raise(IF found THEN outcome
                                              ELSE "TransferError", <<>>)
                                     /\ UNCHANGED <<dataForStats, idx>>
    /\ UNCHANGED <<cmdargs, pickled, store, dataFromPickle, tempDir,
                   tileFilenames, localDs, maxSegId, objs, concurrencyStyle,
                   spatialstatsKey>>

\* the engine call wrapped in a try/except that reports the failure and goes
\* on with the next tuple
AggStepIsolated ==
    /\ pc = "statsloop"
    /\ idx < Len(dataForStats)
    /\ LET t == dataForStats[idx + 1]
       IN  \E ok \in BOOLEAN :
           /\ calls' = Append(calls,
                  Entry("calcPerSegmentStatsRIOS", ok, cmdargs.bucket, <<>>,
                        [img |-> t.img, bandnum |-> t.bandnum,
                         outfile |-> LocalOutfile, selection |-> t.selection,
                         concurrencyStyle |-> concurrencyStyle,
                         handles |-> HandlesDuringStats]))
           /\ idx' = idx + 1
           /\ pc' = IF idx' < Len(dataForStats) THEN "statsloop"
                    ELSE "spatial"
           /\ UNCHANGED error
    /\ UNCHANGED <<cmdargs, pickled, store, dataFromPickle, tempDir,
                   tileFilenames, localDs, maxSegId, objs, concurrencyStyle,
                   bucket, statsKey, spatialstatsKey, dataForStats>>

\* lines 154-157: one tuple of the aggregate document
AggStep ==
    /\ pc = "statsloop"
    /\ idx < Len(dataForStats)
    /\ LET t == dataForStats[idx + 1]
       IN  \E ok \in BOOLEAN :
           /\ calls' = Append(calls,
                  Entry("calcPerSegmentStatsRIOS", ok, cmdargs.bucket, <<>>,
                        [img |-> t.img, bandnum |-> t.bandnum,
                         outfile |-> LocalOutfile, selection |-> t.selection,
                         concurrencyStyle |-> concurrencyStyle,
                         handles |-> HandlesDuringStats]))
           /\ IF ok
              THEN /\ idx' = idx + 1
                   /\ pc' = IF idx' < Len(dataForStats) THEN "statsloop"
                            ELSE "spatial"
                   /\ UNCHANGED error
              ELSE /\ Raise("StatisticsError", <<>>)
                   /\ UNCHANGED idx
    /\ UNCHANGED <<cmdargs, pickled, store, dataFromPickle, tempDir,
                   tileFilenames, localDs, maxSegId, objs, concurrencyStyle,
                   bucket, statsKey, spatialstatsKey, dataForStats>>

\* the separator test written as len(userFuncArr) < 1
ResolveUserFuncWeakTest(userFuncName) ==
    LET userFuncArr == Split(userFuncName, ".")
        moduleName == Join(SubSeq(userFuncArr, 1, Len(userFuncArr) - 1), ".")
        funcName == userFuncArr[Len(userFuncArr)]
    IN  IF Len(userFuncArr) < 1
        THEN [ok |-> FALSE, type |-> "ValueError",
              msg |-> <<"'userFunc' must be a fully qualified function name">>,
              imported |-> <<>>, func |-> None]
        ELSE IF moduleName = ""
        THEN [ok |-> FALSE, type |-> "ValueError",
              msg |-> <<"Empty module name">>,
              imported |-> <<moduleName>>, func |-> None]
        ELSE IF moduleName \notin DOMAIN ModuleAttrs
        THEN [ok |-> FALSE, type |-> "ImportError", msg |-> <<moduleName>>,
              imported |-> <<moduleName>>, func |-> None]
        ELSE IF funcName \notin ModuleAttrs[moduleName]
        THEN [ok |-> FALSE, type |-> "ValueError",
              msg |-> <<"Cannot find function", funcName,
                        "in module", moduleName>>,
              imported |-> <<moduleName>>, func |-> None]
        ELSE [ok |-> TRUE, type |-> "", msg |-> <<>>,
              imported |-> <<moduleName>>,
              func |-> Some([module |-> moduleName, name |-> funcName])]

\* lines 168-181: resolve a callback name.  imported lists the modules
\* handed to importlib.import_module.
ResolveUserFunc(userFuncName) ==
    LET userFuncArr == Split(userFuncName, ".")
        moduleName == Join(SubSeq(userFuncArr, 1, Len(userFuncArr) - 1), ".")
        funcName == userFuncArr[Len(userFuncArr)]
    IN  IF Len(userFuncArr) < 2
        THEN [ok |-> FALSE, type |-> "ValueError",
              msg |-> <<"'userFunc' must be a fully qualified function name">>,
              imported |-> <<>>, func |-> None]
        ELSE IF moduleName = ""
        THEN [ok |-> FALSE, type |-> "ValueError",
              msg |-> <<"Empty module name">>,
              imported |-> <<moduleName>>, func |-> None]
        ELSE IF moduleName \notin DOMAIN ModuleAttrs
        THEN [ok |-> FALSE, type |-> "ImportError", msg |-> <<moduleName>>,
              imported |-> <<moduleName>>, func |-> None]
        ELSE IF funcName \notin ModuleAttrs[moduleName]
        THEN [ok |-> FALSE, type |-> "ValueError",
              msg |-> <<"Cannot find function", funcName,
                        "in module", moduleName>>,
              imported |-> <<moduleName>>, func |-> None]
        ELSE [ok |-> TRUE, type |-> "", msg |-> <<>>,
              imported |-> <<moduleName>>,
              func |-> Some([module |-> moduleName, name |-> funcName])]

\* lines 159-165: locate, download and parse the spatial request document
SpatialStart(docs) ==
    /\ pc = "spatial"
    /\ IF cmdargs.spatialstats = None
       THEN /\ pc' = "upload"
            /\ UNCHANGED <<calls, error, bucket, spatialstatsKey,
                           dataForStats, idx>>
       ELSE LET parts == Split(cmdargs.spatialstats[1], ":")
            IN  IF Len(parts) # 2
                THEN /\ Raise("ValueError", <<"unpack">>)
                     /\ UNCHANGED <<calls, bucket, spatialstatsKey,
                                    dataForStats, idx>>
                ELSE /\ bucket' = Some(parts[1])
                     /\ spatialstatsKey' = Some(parts[2])
                     /\ \E outcome \in {"ok", "TransferError",
                                        "DeserializationError"} :
                         LET found == parts[1] \in Buckets
                                      /\ parts[2] \in store[parts[1]]
                         IN  /\ IF found /\ outcome = "ok"
                                THEN \E doc \in docs :
                                     /\ calls' = Append(calls,
                                            Entry("download", TRUE, parts[1],
                                                  <<parts[2]>>, Some(doc)))
                                     /\ dataForStats' = doc
                                     /\ idx' = 0
                                     /\ pc' = IF Len(doc) > 0 THEN "spatialloop"
                                              ELSE "upload"
                                     /\ UNCHANGED error
                                ELSE /\ calls' = Append(calls,
                                            Entry("download",
                                                  found /\ outcome
                                                      # "TransferError",
                                                  parts[1], <<parts[2]>>,
                                                  None))
                                     /\ Raise(IF found THEN outcome
                                              ELSE "TransferError", <<>>)
                                     /\ UNCHANGED <<dataForStats, idx>>
    /\ UNCHANGED <<cmdargs, pickled, store, dataFromPickle, tempDir,
                   tileFilenames, localDs, maxSegId, objs, concurrencyStyle,
                   statsKey>>

\* the callback resolved once, from the first tuple, and used for every call
SpatialStepHoisted ==
    /\ pc = "spatialloop"
    /\ idx < Len(dataForStats)
    /\ LET t == dataForStats[idx + 1]
           r == ResolveUserFunc(dataForStats[1].userFuncName)
           imports == [i \in 1..Len(r.imported) |->
                          Entry("import_module", r.type # "ImportError"
                                    /\ r.msg # <<"Empty module name">>,
                                cmdargs.bucket, <<>>, r.imported[i])]
       IN  IF ~r.ok
           THEN /\ calls' = calls \o imports
                /\ Raise(r.type, r.msg)
                /\ UNCHANGED idx
           ELSE \E ok \in BOOLEAN :
                /\ calls' = (calls \o imports) \o
                       <<Entry("calcPerSegmentSpatialStatsRIOS", ok,
                               cmdargs.bucket, <<>>,
                               [img |-> t.img, bandnum |-> t.bandnum,
                                outfile |-> LocalOutfile,
                                colInfo |-> t.colInfo, userFunc |-> r.func[1],
                                param |-> t.param,
                                concurrencyStyle |-> concurrencyStyle,
                                handles |-> HandlesDuringStats])>>
                /\ IF ok
                   THEN /\ idx' = idx + 1
                        /\ pc' = IF idx' < Len(dataForStats) THEN "spatialloop"
                                 ELSE "upload"
                        /\ UNCHANGED error
                   ELSE /\ Raise("StatisticsError", <<>>)
                        /\ UNCHANGED idx
    /\ UNCHANGED <<cmdargs, pickled, store, dataFromPickle, tempDir,
                   tileFilenames, localDs, maxSegId, objs, concurrencyStyle,
                   bucket, statsKey, spatialstatsKey, dataForStats>>

\* lines 166-184: one tuple of the spatial document: resolve the callback,
\* then call the engine
SpatialStep ==
    /\ pc = "spatialloop"
    /\ idx < Len(dataForStats)
    /\ LET t == dataForStats[idx + 1]
           r == ResolveUserFunc(t.userFuncName)
           imports == [i \in 1..Len(r.imported) |->
                          Entry("import_module", r.type # "ImportError"
                                    /\ r.msg # <<"Empty module name">>,
                                cmdargs.bucket, <<>>, r.imported[i])]
       IN  IF ~r.ok
           THEN /\ calls' = calls \o imports
                /\ Raise(r.type, r.msg)
                /\ UNCHANGED idx
           ELSE \E ok \in BOOLEAN :
                /\ calls' = (calls \o imports) \o
                       <<Entry("calcPerSegmentSpatialStatsRIOS", ok,
                               cmdargs.bucket, <<>>,
                               [img |-> t.img, bandnum |-> t.bandnum,
                                outfile |-> LocalOutfile,
                                colInfo |-> t.colInfo, userFunc |-> r.func[1],
                                param |-> t.param,
                                concurrencyStyle |-> concurrencyStyle,
                                handles |-> HandlesDuringStats])>>
                /\ IF ok
                   THEN /\ idx' = idx + 1
                        /\ pc' = IF idx' < Len(dataForStats) THEN "spatialloop"
                                 ELSE "upload"
                        /\ UNCHANGED error
                   ELSE /\ Raise("StatisticsError", <<>>)
                        /\ UNCHANGED idx
    /\ UNCHANGED <<cmdargs, pickled, store, dataFromPickle, tempDir,
                   tileFilenames, localDs, maxSegId, objs, concurrencyStyle,
                   bucket, statsKey, spatialstatsKey, dataForStats>>

\* the upload wrapped in a try/except that only reports the failure
UploadFailureIgnored ==
    /\ pc = "upload"
    /\ \E ok \in BOOLEAN :
        /\ calls' = Append(calls,
               Entry("upload", ok, cmdargs.bucket, <<cmdargs.outfile>>,
                     LocalOutfile))
        /\ store' = IF ok THEN [store EXCEPT ![cmdargs.bucket] =
                                    @ \cup {cmdargs.outfile}]
                    ELSE store
        /\ pc' = "finalcleanup"
        /\ UNCHANGED error
    /\ UNCHANGED <<cmdargs, pickled, dataFromPickle, tempDir, tileFilenames,
                   localDs, maxSegId, objs, concurrencyStyle, bucket, statsKey,
                   spatialstatsKey, dataForStats, idx>>

\* line 187: upload the finalized raster
Upload ==
    /\ pc = "upload"
    /\ \E ok \in BOOLEAN :
        /\ calls' = Append(calls,
               Entry("upload", ok, cmdargs.bucket, <<cmdargs.outfile>>,
                     LocalOutfile))
        /\ IF ok
           THEN /\ store' = [store EXCEPT ![cmdargs.bucket] =
                                @ \cup {cmdargs.outfile}]
                /\ pc' = "finalcleanup"
                /\ UNCHANGED error
           ELSE /\ Raise("TransferError", <<>>)
                /\ UNCHANGED store
    /\ UNCHANGED <<cmdargs, pickled, dataFromPickle, tempDir, tileFilenames,
                   localDs, maxSegId, objs, concurrencyStyle, bucket, statsKey,
                   spatialstatsKey, dataForStats, idx>>

\* the document keys taken from the command line text as given, bucket part
\* and colon included
FinalObjsUnsplit(args, sKey, spKey) ==
    (<<args.pickle>>
        \o (IF args.stats # None THEN <<Concat(args.stats[1])>> ELSE <<>>))
        \o (IF args.spatialstats # None THEN <<Concat(args.spatialstats[1])>>
            ELSE <<>>)

\* lines 191-195: the keys of the final cleanup
FinalObjs(args, sKey, spKey) ==
    (<<args.pickle>>
        \o (IF args.stats # None THEN <<sKey[1]>> ELSE <<>>))
        \o (IF args.spatialstats # None THEN <<spKey[1]>> ELSE <<>>)

\* the final cleanup without its "if not cmdargs.noremove" guard
FinalCleanupUnguarded ==
    /\ pc = "finalcleanup"
    /\ objs' = FinalObjs(cmdargs, statsKey, spatialstatsKey)
    /\ \E ok \in BOOLEAN :
        /\ calls' = Append(calls,
               Entry("delete", ok, cmdargs.bucket, objs', "final"))
        /\ IF ok
           THEN /\ store' = Deleted(store, cmdargs.bucket, objs')
                /\ pc' = "rmtree"
                /\ UNCHANGED error
           ELSE /\ Raise("TransferError", <<>>)
                /\ UNCHANGED store
    /\ UNCHANGED <<cmdargs, pickled, dataFromPickle, tempDir, tileFilenames,
                   localDs, maxSegId, concurrencyStyle, bucket, statsKey,
                   spatialstatsKey, dataForStats, idx>>

\* lines 190-197: delete the preparation state and the request documents
FinalCleanup ==
    /\ pc = "finalcleanup"
    /\ IF cmdargs.noremove
       THEN /\ pc' = "rmtree"
            /\ UNCHANGED <<store, calls, error, objs>>
       ELSE /\ objs' = FinalObjs(cmdargs, statsKey, spatialstatsKey)
            /\ \E ok \in BOOLEAN :
                /\ calls' = Append(calls,
                       Entry("delete", ok, cmdargs.bucket, objs', "final"))
                /\ IF ok
                   THEN /\ store' = Deleted(store, cmdargs.bucket, objs')
                        /\ pc' = "rmtree"
                        /\ UNCHANGED error
                   ELSE /\ Raise("TransferError", <<>>)
                        /\ UNCHANGED store
    /\ UNCHANGED <<cmdargs, pickled, dataFromPickle, tempDir, tileFilenames,
                   localDs, maxSegId, concurrencyStyle, bucket, statsKey,
                   spatialstatsKey, dataForStats, idx>>

\* lines 200-202: remove the temporary directory, report memory use
LocalCleanup ==
    /\ pc = "rmtree"
    /\ tempDir' = "removed"
    /\ pc' = "done"
    /\ UNCHANGED <<cmdargs, pickled, store, calls, error, dataFromPickle,
                   tileFilenames, localDs, maxSegId, objs, concurrencyStyle,
                   bucket, statsKey, spatialstatsKey, dataForStats, idx>>

-----------------------------------------------------------------------------
(* Specifications *)

\* main() over the request documents it may download
Run(aggDocs, spatialDocs) ==
    \/ FetchState
    \/ OpenInput
    \/ ResolveTiles
    \/ Finalize
    \/ TileCleanup
    \/ DeleteBatch
    \/ DefaultStats
    \/ CloseLocalDs
    \/ ConcurrencyConfig
    \/ AggStart(aggDocs)
    \/ AggStep
    \/ SpatialStart(spatialDocs)
    \/ SpatialStep
    \/ Upload
    \/ FinalCleanup
    \/ LocalCleanup

\* the whole pipeline: every flag, both buckets, small coordinate lists
Init ==
    InitOf(PipelineLists, DocArgs(StatsDocKey) \cup {MalformedDocArg},
           DocArgs(SpatialDocKey))

Next == Run(AggDocs, SpatialDocs(FuncNames))

Spec == Init /\ [][Next]_vars

\* tile naming: every small coordinate list, one document of each kind
InitTiles ==
    InitOf(SmallLists, {Some(<<Bucket, ":", StatsDocKey>>)},
           {Some(<<Bucket, ":", SpatialDocKey>>)})

\* batching: key sets around the batch limit, one document of each kind
InitBatch ==
    InitOf(BatchLists, {Some(<<Bucket, ":", StatsDocKey>>)},
           {Some(<<Bucket, ":", SpatialDocKey>>)})

NextOneDoc ==
    Run({<<AggTuple(1)>>}, {<<SpatialTuple(1, <<"mypkg", ".", "myfunc">>)>>})

SpecTiles == InitTiles /\ [][NextOneDoc]_vars

SpecBatch == InitBatch /\ [][NextOneDoc]_vars

\* main() is one sequential thread that is never suspended: once it is in
\* the while loop of lines 115-117, the loop body does run
SpecBatchFair == InitBatch /\ [][NextOneDoc]_vars /\ WF_vars(DeleteBatch)

-----------------------------------------------------------------------------
(* Reading the call log *)

IsTileDelete(e) == e.op = "delete" /\ e.info = "tiles"
IsFinalDelete(e) == e.op = "delete" /\ e.info = "final"
IsDelete(e) == e.op = "delete"
StatsOps == {"calcPerSegmentStatsRIOS", "calcPerSegmentSpatialStatsRIOS"}
IsStatsCall(e) == e.op \in StatsOps

TileDeletes == SelectSeq(calls, IsTileDelete)
FinalDeletes == SelectSeq(calls, IsFinalDelete)
AllDeletes == SelectSeq(calls, IsDelete)

RECURSIVE Flatten(_)
\* the key lists of a sequence of delete calls, end to end
Flatten(batches) ==
    IF Len(batches) = 0 THEN <<>>
    ELSE batches[1].keys \o Flatten(Tail(batches))

\* the blobs the tiling stage left for the coordinates of the preparation
\* state, as a set and in the order the coordinates first occur
TileBlobs ==
    {UpstreamTileKey(TilePrefix, c[1], c[2]) : c \in Range(pickled.colRowList)}

TileBlobList ==
    LET coords == DictKeyOrder(pickled.colRowList)
    IN  [i \in 1..Len(coords) |->
            UpstreamTileKey(TilePrefix, coords[i][1], coords[i][2])]

CeilDiv(k, n) == (k + n - 1) \div n

FinalizeReturned == localDs # "unset"

\* tile cleanup has run to its end: every batch was issued and returned
TileCleanupComplete ==
    /\ ~cmdargs.noremove
    /\ FinalizeReturned
    /\ pc \notin {"tilecleanup", "deleteloop"}
    /\ \A i \in DOMAIN TileDeletes : TileDeletes[i].ok

-----------------------------------------------------------------------------
(* C1: with keep-intermediates unset, finalize returned and every delete   *)
(* call successful, tile cleanup issues ceil(K / 1000) delete calls for a  *)
(* tile key set of size K, and the batches partition the key set: every    *)
(* key is in exactly one batch, and no batch holds a key outside the set.  *)
C1_CleanupBatching ==
    TileCleanupComplete =>
        /\ Len(TileDeletes) = CeilDiv(Cardinality(TileBlobs), BatchLimit)
        /\ Len(Flatten(TileDeletes)) = Cardinality(TileBlobs)
        /\ Range(Flatten(TileDeletes)) = TileBlobs

\* tile cleanup of 2500 keys has finished in three calls
C1_Witness ==
    /\ TileCleanupComplete
    /\ Cardinality(TileBlobs) > 2 * BatchLimit
    /\ Len(TileDeletes) = 3

(* C8: every delete call of the run, of tile cleanup and of final cleanup, *)
(* carries between 1 and 1000 keys; the batches of tile cleanup are the    *)
(* consecutive slices of the key list, in order, so every batch but the    *)
(* last holds exactly 1000 keys and the last holds the remainder.          *)
C8_BatchShape ==
    /\ \A i \in DOMAIN AllDeletes :
        Len(AllDeletes[i].keys) \in 1..BatchLimit
    /\ \A i \in DOMAIN TileDeletes :
        TileDeletes[i].keys =
            SubSeq(TileBlobList, (i - 1) * BatchLimit + 1,
                   Min(i * BatchLimit, Len(TileBlobList)))
    /\ TileCleanupComplete =>
        Len(Flatten(TileDeletes)) = Len(TileBlobList)

\* 2500 keys were deleted in batches of 1000, 1000 and 500, and the final
\* cleanup has issued its call too
C8_Witness ==
    /\ Len(TileBlobList) = 2500
    /\ [i \in DOMAIN TileDeletes |-> Len(TileDeletes[i].keys)]
           = <<1000, 1000, 500>>
    /\ Len(FinalDeletes) = 1

-----------------------------------------------------------------------------
(* More readings of the call log *)

LastCall == calls[Len(calls)]

\* the indices of the calls of an operation that returned
OkCalls(op) == {i \in DOMAIN calls : calls[i].op = op /\ calls[i].ok}

UploadAttempted == \E i \in DOMAIN calls : calls[i].op = "upload"
UploadDone == OkCalls("upload") # {}

\* the request documents downloaded and parsed from a key
DocsRead(key) ==
    {calls[i].info[1] :
        i \in {j \in OkCalls("download") :
                  calls[j].keys = <<key>> /\ calls[j].info # None}}

\* what the earlier stages left in the store
StoreAtStart == InitialStore(pickled.colRowList)

\* a stage after tile cleanup has started
LaterStageStarted ==
    \/ pc \in {"gdalstats", "close", "concurrency", "stats", "statsloop",
               "spatial", "spatialloop", "upload", "finalcleanup", "rmtree",
               "done"}
    \/ /\ pc = "failed"
       /\ FinalizeReturned
       /\ ~(IsTileDelete(LastCall) /\ ~LastCall.ok)

-----------------------------------------------------------------------------
(* C2: the Statistics Engine is never invoked while the raster handle the  *)
(* Finalization Engine returned is open, whatever the skip-default-stats   *)
(* flag: so no more than one handle on the output raster is ever open.     *)
C2_ReleaseBeforeReopen ==
    /\ \A i \in DOMAIN calls :
        IsStatsCall(calls[i]) => calls[i].info.handles = 1
    /\ localDs = "open" =>
        /\ pc \notin {"statsloop", "spatialloop"}
        /\ \A i \in DOMAIN calls : ~IsStatsCall(calls[i])

\* the engine has been called after the default statistics used the handle
C2_Witness ==
    /\ ~cmdargs.nogdalstats
    /\ localDs = "closed"
    /\ \E i \in DOMAIN calls : IsStatsCall(calls[i])

(* C3: a failing stage is not retried and nothing of a later stage runs:   *)
(* a call that failed is the last call of the run, an exception leaves the *)
(* run in its fatal state, and no step is taken from that state.           *)
C3_FailFast ==
    /\ [](/\ (error # NoError) <=> (pc = "failed")
          /\ \A i \in DOMAIN calls :
              ~calls[i].ok => (i = Len(calls) /\ pc = "failed"))
    /\ [][pc # "failed"]_vars

\* the upload failed after every earlier stage had run
C3_Witness ==
    /\ pc = "failed"
    /\ Len(calls) > 0
    /\ LastCall.op = "upload"
    /\ ~LastCall.ok
    /\ ~cmdargs.noremove
    /\ OkCalls("calcPerSegmentSpatialStatsRIOS") # {}

(* C4: no tile blob is deleted before the Finalization Engine has returned *)
(* successfully; with keep-intermediates unset and finalize returned, all  *)
(* tile blobs are gone before any later stage starts, also in the runs     *)
(* where a later stage fails.                                              *)
C4_TileCleanupGate ==
    /\ ~FinalizeReturned =>
        /\ TileBlobs \subseteq store[Bucket]
        /\ AllDeletes = <<>>
    /\ (~cmdargs.noremove /\ LaterStageStarted) =>
        TileBlobs \cap store[Bucket] = {}

\* a run that failed in the statistics stage, its tiles already deleted
C4_Witness ==
    /\ pc = "failed"
    /\ error.type = "StatisticsError"
    /\ ~cmdargs.noremove
    /\ TileBlobs # {}
    /\ TileBlobs \cap store[Bucket] = {}

(* C5: the raster is uploaded only after every tuple of every configured   *)
(* request document was computed successfully, and the preparation state   *)
(* and the request documents stay in the store until that upload has       *)
(* succeeded: a run that fails before or during publish leaves them there. *)
C5_PublishOrdering ==
    /\ UploadAttempted =>
        /\ cmdargs.stats # None =>
            \E d \in DocsRead(StatsDocKey) :
                Cardinality(OkCalls("calcPerSegmentStatsRIOS")) = Len(d)
        /\ cmdargs.spatialstats # None =>
            \E d \in DocsRead(SpatialDocKey) :
                Cardinality(OkCalls("calcPerSegmentSpatialStatsRIOS")) = Len(d)
    /\ ~UploadDone =>
        /\ FinalDeletes = <<>>
        /\ PickleKey \in store[Bucket]
        /\ \A b \in Buckets :
            StoreAtStart[b] \cap {StatsDocKey, SpatialDocKey} \subseteq store[b]

\* the upload failed with both documents processed: nothing was cleaned up
C5_Witness ==
    /\ pc = "failed"
    /\ UploadAttempted
    /\ ~UploadDone
    /\ ~cmdargs.noremove
    /\ OkCalls("calcPerSegmentStatsRIOS") # {}
    /\ OkCalls("calcPerSegmentSpatialStatsRIOS") # {}

(* C6: in every run that created the temporary directory, the directory is *)
(* removed by the end of the run, whether the run succeeds or is aborted   *)
(* by a failure after the directory was made.                              *)
C6_LocalCleanupOnEveryExit ==
    (pc \in {"done", "failed"} /\ tempDir # "unset") => tempDir = "removed"

\* the calls a complete run makes besides the deletes, from the flags other
\* than keep-intermediates and the documents read
ExpectedOps ==
    LET agg == IF cmdargs.stats = None THEN <<>>
               ELSE LET d == CHOOSE d \in DocsRead(StatsDocKey) : TRUE
                    IN  <<"download">> \o
                        [i \in 1..Len(d) |-> "calcPerSegmentStatsRIOS"]
        spatial == IF cmdargs.spatialstats = None THEN <<>>
                   ELSE LET d == CHOOSE d \in DocsRead(SpatialDocKey) : TRUE
                        IN  <<"download">> \o
                            [i \in 1..(2 * Len(d)) |->
                                IF i % 2 = 1 THEN "import_module"
                                ELSE "calcPerSegmentSpatialStatsRIOS"]
    IN  (((<<"download", "gdal.Open", "finalize">>
            \o (IF cmdargs.nogdalstats THEN <<>> ELSE DefaultStatsOps))
            \o agg) \o spatial) \o <<"upload">>

IsNotDelete(e) == e.op # "delete"

NonDeleteOps ==
    LET kept == SelectSeq(calls, IsNotDelete)
    IN  [i \in DOMAIN kept |-> kept[i].op]

(* C7: with keep-intermediates set no delete call is ever issued, so the   *)
(* tile blobs, the preparation state and the request documents all stay in *)
(* the store; the other stages run as without the flag: a complete run     *)
(* makes the same calls, deletes aside, whatever the flag.                 *)
C7_KeepIntermediates ==
    /\ cmdargs.noremove =>
        /\ AllDeletes = <<>>
        /\ \A b \in Buckets : StoreAtStart[b] \subseteq store[b]
    /\ pc = "done" =>
        /\ NonDeleteOps = ExpectedOps
        /\ \A i \in DOMAIN calls : calls[i].ok
        /\ tempDir = "removed"

\* a complete run with the flag set, tiles and both documents in the store
C7_Witness ==
    /\ pc = "done"
    /\ cmdargs.noremove
    /\ TileBlobs # {}
    /\ cmdargs.stats # None
    /\ cmdargs.spatialstats # None
    /\ TileBlobs \subseteq store[Bucket]

(* C9: for the fixed prefix the name resolved for coordinate (col, row) is *)
(* the key prefix_col_row.tif (under the bucket's /vsis3/ path), and the   *)
(* mapping has one entry per distinct coordinate, with pairwise distinct   *)
(* names: N distinct coordinates give N entries and N distinct keys.       *)
C9_TileNameResolver ==
    tempDir # "unset" =>
        LET coords == Range(pickled.colRowList)
        IN  /\ Len(tileFilenames) = Cardinality(coords)
            /\ {tileFilenames[i].coord : i \in DOMAIN tileFilenames} = coords
            /\ Cardinality({tileFilenames[i].filename :
                               i \in DOMAIN tileFilenames})
                   = Cardinality(coords)
            /\ \A i \in DOMAIN tileFilenames :
                LET c == tileFilenames[i].coord
                IN  tileFilenames[i].filename =
                        "/vsis3/" \o Bucket \o "/"
                            \o UpstreamTileKey(TilePrefix, c[1], c[2])

\* the tiles (1, 11) and (11, 1) have been named
C9_Witness ==
    /\ tempDir # "unset"
    /\ pickled.colRowList = <<<<1, 11>>, <<11, 1>>>>
    /\ Len(tileFilenames) = 2

-----------------------------------------------------------------------------
(* Callback names read from the right: the text after the last separator   *)
(* is the function, the text before it the module path.                    *)

HasSep(name) == \E i \in DOMAIN name : name[i] = "."

LastSep(name) ==
    CHOOSE i \in DOMAIN name :
        name[i] = "." /\ \A j \in DOMAIN name : name[j] = "." => j <= i

ModulePath(name) == Concat(SubSeq(name, 1, LastSep(name) - 1))

FinalName(name) == Concat(SubSeq(name, LastSep(name) + 1, Len(name)))

NoStatsCallAdded ==
    \A i \in (Len(calls) + 1)..Len(calls') : ~IsStatsCall(calls'[i])

(* C10: in the spatial loop, a callback name without a separator fails     *)
(* with the configuration error (ValueError) that states the requirement,  *)
(* before any module is imported and before the engine is called; a name   *)
(* whose module imports but lacks the final component fails with the       *)
(* configuration error naming function and module; a valid name reaches    *)
(* the engine as the function of that name on that module.                 *)
C10_CallbackResolution ==
    [][pc = "spatialloop" =>
        LET name == dataForStats[idx + 1].userFuncName
        IN  /\ ~HasSep(name) =>
                /\ pc' = "failed"
                /\ error'.type = "ValueError"
                /\ error'.msg =
                       <<"'userFunc' must be a fully qualified function name">>
                /\ calls' = calls
            /\ (/\ HasSep(name)
                /\ ModulePath(name) \in DOMAIN ModuleAttrs
                /\ FinalName(name) \notin ModuleAttrs[ModulePath(name)]) =>
                /\ pc' = "failed"
                /\ error'.type = "ValueError"
                /\ {FinalName(name), ModulePath(name)}
                       \subseteq Range(error'.msg)
                /\ NoStatsCallAdded
            /\ (/\ HasSep(name)
                /\ ModulePath(name) \in DOMAIN ModuleAttrs
                /\ FinalName(name) \in ModuleAttrs[ModulePath(name)]) =>
                /\ Len(calls') = Len(calls) + 2
                /\ calls'[Len(calls) + 1].op = "import_module"
                /\ calls'[Len(calls) + 1].info = ModulePath(name)
                /\ calls'[Len(calls') ].op = "calcPerSegmentSpatialStatsRIOS"
                /\ calls'[Len(calls')].info.userFunc =
                       [module |-> ModulePath(name),
                        name |-> FinalName(name)]
    ]_vars

\* a run ended by a callback missing from its module, after a first tuple
\* had been computed
C10_Witness ==
    /\ pc = "failed"
    /\ error.msg = <<"Cannot find function", "nofunc", "in module", "mypkg">>
    /\ OkCalls("calcPerSegmentSpatialStatsRIOS") # {}

-----------------------------------------------------------------------------
\* the stats engine calls of the log, in order
StatsCalls == SelectSeq(calls, IsStatsCall)

TimeoutFields ==
    {"readBufferInsertTimeout", "readBufferPopTimeout",
     "computeBufferInsertTimeout", "computeBufferPopTimeout"}

(* C11: with a uniform timeout supplied, the configuration given to every  *)
(* Statistics Engine call has all four timeouts equal to it and the        *)
(* read-worker count equal to the configured count; with none supplied     *)
(* only the read-worker count is set and no timeout is overridden.  Every  *)
(* aggregate and spatial call of the run gets the same configuration.      *)
C11_ConcurrencyConfiguration ==
    \A i \in DOMAIN StatsCalls :
        LET style == StatsCalls[i].info.concurrencyStyle
        IN  /\ style # None
            /\ style[1].numReadWorkers = cmdargs.statsreadworkers
            /\ DOMAIN style[1] = TimeoutFields \cup {"numReadWorkers"}
            /\ \A f \in TimeoutFields :
                IF cmdargs.readworkerstimeouts = None
                THEN style[1][f] = None
                ELSE /\ style[1][f] # None
                     /\ style[1][f][1] = cmdargs.readworkerstimeouts[1]
            /\ style = StatsCalls[1].info.concurrencyStyle

\* an aggregate and a spatial call were made with a timeout of 0 supplied
C11_Witness ==
    /\ cmdargs.readworkerstimeouts = Some(0)
    /\ OkCalls("calcPerSegmentStatsRIOS") # {}
    /\ OkCalls("calcPerSegmentSpatialStatsRIOS") # {}

-----------------------------------------------------------------------------
RECURSIVE LoopBatches(_)
\* the key lists the while loop of lines 115-117 sends for a list of
\* pending keys, when every call returns
LoopBatches(list) ==
    IF Len(list) > 0
    THEN <<FirstBatch(list)>> \o LoopBatches(DropBatch(list))
    ELSE <<>>

\* between the end of tile cleanup and the final cleanup, where objs is
\* still the list the loop has worked on
AfterTileLoop ==
    pc \in {"gdalstats", "close", "concurrency", "stats", "statsloop",
            "spatial", "spatialloop", "upload", "finalcleanup"}

(* C12: on an empty tile key set tile cleanup issues no delete call: for   *)
(* an empty coordinate list, and for a second pass of the loop over the    *)
(* list the first pass has emptied; no delete call ever carries an empty   *)
(* key list.                                                               *)
C12_EmptyCleanupIdempotent ==
    /\ TileBlobs = {} => TileDeletes = <<>>
    /\ \A i \in DOMAIN AllDeletes : Len(AllDeletes[i].keys) > 0
    /\ (TileCleanupComplete /\ AfterTileLoop) =>
        /\ objs = <<>>
        /\ LoopBatches(objs) = <<>>
        /\ [i \in DOMAIN TileDeletes |-> TileDeletes[i].keys]
               = LoopBatches(TileBlobList)

\* tile cleanup has run over an empty coordinate list
C12_Witness ==
    /\ TileCleanupComplete
    /\ AfterTileLoop
    /\ pickled.colRowList = <<>>
    /\ AllDeletes = <<>>

-----------------------------------------------------------------------------
\* the run was ended by a tile delete batch that failed
FailedInTileDelete ==
    /\ pc = "failed"
    /\ Len(calls) > 0
    /\ IsTileDelete(LastCall)
    /\ ~LastCall.ok

(* C13: tile deletion is not transactional.  When the i-th tile delete    *)
(* batch fails, it is the last call of the run (not retried, no batch      *)
(* after it), the batches before it stay applied, and the tile keys        *)
(* deleted are exactly the first (i - 1) * 1000 keys of the key list.      *)
C13_NonTransactionalDelete ==
    /\ \A i \in DOMAIN TileDeletes :
        ~TileDeletes[i].ok =>
            /\ i = Len(TileDeletes)
            /\ FailedInTileDelete
    /\ FailedInTileDelete =>
        LET i == Len(TileDeletes)
            gone == SubSeq(TileBlobList, 1, (i - 1) * BatchLimit)
        IN  /\ Len(gone) = (i - 1) * BatchLimit
            /\ TileBlobs \ store[Bucket] = Range(gone)
            /\ Cardinality(Range(gone)) = (i - 1) * BatchLimit
            /\ \A j \in 1..(i - 1) : TileDeletes[j].ok
            /\ objs = SubSeq(TileBlobList, (i - 1) * BatchLimit + 1,
                             Len(TileBlobList))

\* the third batch failed: two batches, 2000 keys, are gone
C13_Witness ==
    /\ FailedInTileDelete
    /\ Len(TileDeletes) = 3
    /\ Cardinality(TileBlobs \ store[Bucket]) = 2 * BatchLimit

-----------------------------------------------------------------------------
\* the tile reference mapping the Finalization Engine was given
TilesHanded ==
    calls[CHOOSE i \in DOMAIN calls : calls[i].op = "finalize"].info.tiles

ScenarioAList == <<<<0, 0>>, <<0, 1>>, <<1, 0>>, <<1, 1>>>>

ScenarioAKeys ==
    <<"run1_0_0.tif", "run1_0_1.tif", "run1_1_0.tif", "run1_1_1.tif">>

(* C14: once tile cleanup has run to its end, the keys it deleted are the  *)
(* keys of the tile mapping handed to the Finalization Engine, entry by    *)
(* entry and without the storage-path prefix, each key deleted exactly     *)
(* once, also when the coordinate list repeats a coordinate; for the list  *)
(* (0,0),(0,1),(1,0),(1,1) and prefix run1 this is one batch holding       *)
(* run1_0_0.tif, run1_0_1.tif, run1_1_0.tif, run1_1_1.tif.                 *)
C14_CleanupTargetsResolvedTiles ==
    TileCleanupComplete =>
        LET deleted == Flatten(TileDeletes)
        IN  /\ Len(deleted) = Len(TilesHanded)
            /\ \A i \in DOMAIN deleted :
                VsiPath(cmdargs.bucket, deleted[i]) = TilesHanded[i].filename
            /\ Cardinality(Range(deleted)) = Len(deleted)
            /\ Cardinality({t.coord : t \in Range(TilesHanded)})
                   = Len(TilesHanded)
            /\ Range(deleted) = TileBlobs
            /\ pickled.colRowList = ScenarioAList =>
                   [i \in DOMAIN TileDeletes |-> TileDeletes[i].keys]
                       = <<ScenarioAKeys>>

\* a coordinate list with a repeated coordinate went through tile cleanup
C14_Witness ==
    /\ TileCleanupComplete
    /\ Cardinality(Range(pickled.colRowList)) < Len(pickled.colRowList)
    /\ Len(Flatten(TileDeletes)) = Cardinality(Range(pickled.colRowList))
    /\ Len(TileDeletes) = 1

-----------------------------------------------------------------------------
\* the key part of a configured "bucket:key" location, none when the option
\* was not given
ConfiguredKey(arg) == IF arg = None THEN <<>> ELSE <<arg[1][Len(arg[1])]>>

FinalCleanupAttempted == UploadDone /\ pc \in {"rmtree", "done", "failed"}

(* C15: with keep-intermediates unset and publish successful, final        *)
(* cleanup issues exactly one delete call; its key list is the             *)
(* preparation-state key, then the aggregate document key iff an aggregate *)
(* document was configured, then the spatial document key iff a spatial    *)
(* document was configured; no tile key and no other key is in it.         *)
C15_FinalCleanupKeySet ==
    /\ Len(FinalDeletes) <= 1
    /\ (FinalCleanupAttempted /\ ~cmdargs.noremove) => Len(FinalDeletes) = 1
    /\ \A i \in DOMAIN FinalDeletes :
        /\ FinalDeletes[i].keys
               = (<<PickleKey>> \o ConfiguredKey(cmdargs.stats))
                     \o ConfiguredKey(cmdargs.spatialstats)
        /\ Range(FinalDeletes[i].keys) \cap TileBlobs = {}
        /\ Range(FinalDeletes[i].keys)
               \subseteq {PickleKey, StatsDocKey, SpatialDocKey}
        /\ UploadDone
        /\ ~cmdargs.noremove

\* final cleanup deleted the preparation state and both documents
C15_Witness ==
    /\ FinalCleanupAttempted
    /\ Len(FinalDeletes) = 1
    /\ FinalDeletes[1].ok
    /\ FinalDeletes[1].keys = <<PickleKey, StatsDocKey, SpatialDocKey>>

-----------------------------------------------------------------------------
IsAggCall(e) == e.op = "calcPerSegmentStatsRIOS"
IsSpatialCall(e) == e.op = "calcPerSegmentSpatialStatsRIOS"
AggCalls == SelectSeq(calls, IsAggCall)
SpatialCalls == SelectSeq(calls, IsSpatialCall)

\* the spatial stage has left a trace: its document download, an import or
\* an engine call
IsSpatialStageCall(e) ==
    \/ e.op \in {"import_module", "calcPerSegmentSpatialStatsRIOS"}
    \/ e.op = "download" /\ e.keys = <<SpatialDocKey>>

\* the run failed inside one of the two statistics loops
FailedInStatsLoop ==
    /\ pc = "failed"
    /\ \/ error.type = "StatisticsError"
       \/ /\ error.type \in {"ValueError", "ImportError"}
          /\ error.msg # <<"unpack">>

\* the j-th engine call of a stage was made for the j-th tuple of its
\* document, and only the last call made can have failed
InDocumentOrder(made, docs) ==
    \A j \in DOMAIN made :
        /\ \E doc \in docs :
            /\ j <= Len(doc)
            /\ made[j].info.img = doc[j].img
            /\ made[j].info.bandnum = doc[j].bandnum
        /\ j < Len(made) => made[j].ok

(* C16: aggregate tuples are processed one at a time in document order,   *)
(* all of them before anything of the spatial stage, and spatial tuples    *)
(* in document order; when the engine call or the callback resolution of   *)
(* a tuple fails, no later tuple is processed, the spatial stage is not    *)
(* started after an aggregate failure, and neither publish nor final       *)
(* cleanup occurs.                                                         *)
C16_StatsAllOrNothing ==
    /\ InDocumentOrder(AggCalls, DocsRead(StatsDocKey))
    /\ InDocumentOrder(SpatialCalls, DocsRead(SpatialDocKey))
    /\ \A i, j \in DOMAIN calls :
        (IsAggCall(calls[i]) /\ IsSpatialStageCall(calls[j])) => i < j
    /\ (\E j \in DOMAIN calls : IsSpatialStageCall(calls[j])) =>
        /\ \A i \in DOMAIN AggCalls : AggCalls[i].ok
        /\ \A doc \in DocsRead(StatsDocKey) : Len(AggCalls) = Len(doc)
    /\ \A i \in DOMAIN calls :
        (IsStatsCall(calls[i]) /\ ~calls[i].ok) =>
            /\ i = Len(calls)
            /\ FailedInStatsLoop
    /\ FailedInStatsLoop =>
        /\ ~UploadAttempted
        /\ FinalDeletes = <<>>
        /\ \A doc \in DocsRead(StatsDocKey) :
            Len(AggCalls) < Len(doc) =>
                \A j \in DOMAIN calls : ~IsSpatialStageCall(calls[j])
    /\ UploadAttempted =>
        /\ \A i \in DOMAIN StatsCalls : StatsCalls[i].ok
        /\ \A doc \in DocsRead(StatsDocKey) : Len(AggCalls) = Len(doc)
        /\ \A doc \in DocsRead(SpatialDocKey) : Len(SpatialCalls) = Len(doc)

\* the first of two aggregate tuples failed with a spatial document
\* configured: the second tuple and the spatial stage were never started
C16_Witness ==
    /\ FailedInStatsLoop
    /\ Len(AggCalls) = 1
    /\ ~AggCalls[1].ok
    /\ \E doc \in DocsRead(StatsDocKey) : Len(doc) = 2
    /\ cmdargs.spatialstats # None

-----------------------------------------------------------------------------
Resolvable(name) ==
    /\ HasSep(name)
    /\ ModulePath(name) \in DOMAIN ModuleAttrs
    /\ FinalName(name) \in ModuleAttrs[ModulePath(name)]

\* the number of log entries of an operation before position i
CountBefore(op, i) == Cardinality({j \in 1..(i - 1) : calls[j].op = op})

SpatialStageOver ==
    UploadAttempted \/ pc \in {"upload", "finalcleanup", "rmtree", "done"}

(* C17: the i-th spatial engine call receives the callback resolved from   *)
(* the i-th tuple's qualified name with that tuple's image, band, column   *)
(* spec and extra parameter; a document of n tuples that all resolve gets  *)
(* exactly n calls; each callback is resolved immediately before its own   *)
(* engine call, so an unresolvable name in tuple i is met only after       *)
(* tuples 1..i-1 have been computed.                                       *)
C17_SpatialInvocation ==
    /\ \A j \in DOMAIN SpatialCalls :
        \E doc \in DocsRead(SpatialDocKey) :
            /\ j <= Len(doc)
            /\ SpatialCalls[j].info.img = doc[j].img
            /\ SpatialCalls[j].info.bandnum = doc[j].bandnum
            /\ SpatialCalls[j].info.colInfo = doc[j].colInfo
            /\ SpatialCalls[j].info.param = doc[j].param
            /\ Resolvable(doc[j].userFuncName)
            /\ SpatialCalls[j].info.userFunc
                   = [module |-> ModulePath(doc[j].userFuncName),
                      name |-> FinalName(doc[j].userFuncName)]
    /\ \A i \in DOMAIN calls :
        /\ IsSpatialCall(calls[i]) =>
            /\ i > 1
            /\ calls[i - 1].op = "import_module"
            /\ calls[i - 1].info = calls[i].info.userFunc.module
        /\ calls[i].op = "import_module" =>
            /\ CountBefore("calcPerSegmentSpatialStatsRIOS", i)
                   = CountBefore("import_module", i)
            /\ \A j \in 1..(i - 1) : IsSpatialCall(calls[j]) => calls[j].ok
    /\ SpatialStageOver =>
        \A doc \in DocsRead(SpatialDocKey) :
            /\ Len(SpatialCalls) = Len(doc)
            /\ \A j \in DOMAIN doc : Resolvable(doc[j].userFuncName)
    /\ (FailedInStatsLoop /\ error.type \in {"ValueError", "ImportError"}) =>
        \E doc \in DocsRead(SpatialDocKey) :
            /\ Len(SpatialCalls) < Len(doc)
            /\ \A j \in DOMAIN SpatialCalls : SpatialCalls[j].ok
            /\ ~Resolvable(doc[Len(SpatialCalls) + 1].userFuncName)

\* a document of two tuples naming different callbacks, both computed
C17_Witness ==
    /\ SpatialStageOver
    /\ Len(SpatialCalls) = 2
    /\ SpatialCalls[1].info.userFunc # SpatialCalls[2].info.userFunc
    /\ \E doc \in DocsRead(SpatialDocKey) : Len(doc) = 2

-----------------------------------------------------------------------------
IsGdalCall(e) ==
    e.op \in {"readHistogram", "estimateStatsFromHisto",
              "writeRandomColourTable", "addOverviews"}

GdalCalls == SelectSeq(calls, IsGdalCall)

\* the Finalization Engine returned, with the histogram written, before
\* position i of the log
FinalizedBefore(i) ==
    \E j \in 1..(i - 1) :
        /\ calls[j].op = "finalize"
        /\ calls[j].ok
        /\ calls[j].info.writeHistogram

(* C18: with skip-default-stats unset, the histogram read, the statistics  *)
(* estimate, the colour table write (sized max segment id + 1) and the     *)
(* overview build occur in that order, after the Finalization Engine has   *)
(* returned with the histogram written and while the output raster handle  *)
(* is still open, and all four have occurred once the handle is closed;    *)
(* with the flag set none occurs.  No call uses the handle after it has    *)
(* been closed.                                                            *)
C18_DefaultStatsPlacement ==
    /\ cmdargs.nogdalstats => GdalCalls = <<>>
    /\ Len(GdalCalls) <= 4
    /\ \A i \in DOMAIN GdalCalls :
        /\ i = 1 => GdalCalls[i].op = "readHistogram"
        /\ i = 2 => GdalCalls[i].op = "estimateStatsFromHisto"
        /\ i = 3 => GdalCalls[i].op = "writeRandomColourTable"
        /\ i = 4 => GdalCalls[i].op = "addOverviews"
        /\ i < Len(GdalCalls) => GdalCalls[i].ok
        /\ GdalCalls[i].info.handle = "open"
        /\ GdalCalls[i].info.size = maxSegId[1] + 1
    /\ \A i \in DOMAIN calls :
        /\ IsGdalCall(calls[i]) =>
            /\ FinalizedBefore(i)
            /\ \A j \in 1..(i - 1) : ~IsStatsCall(calls[j])
        /\ IsStatsCall(calls[i]) => calls[i].info.handles = 1
    /\ localDs = "closed" =>
        /\ pc # "gdalstats"
        /\ ~cmdargs.nogdalstats =>
            /\ Len(GdalCalls) = 4
            /\ \A i \in DOMAIN GdalCalls : GdalCalls[i].ok
    /\ (GdalCalls # <<>> /\ ~LastCall.ok /\ IsGdalCall(LastCall)) =>
        localDs = "open"

\* the four calls were made on a raster of several segments and the handle
\* was then closed
C18_Witness ==
    /\ localDs = "closed"
    /\ ~cmdargs.nogdalstats
    /\ Len(GdalCalls) = 4
    /\ GdalCalls[3].info.size = 5

-----------------------------------------------------------------------------
\* key was downloaded from bucket b earlier in the run
ReadFrom(b, key) ==
    \E i \in OkCalls("download") :
        calls[i].bucket = b /\ calls[i].keys = <<key>>

(* C19: every key deleted by final cleanup is deleted from the bucket it   *)
(* was downloaded from earlier in the run, for every configured            *)
(* "bucket:key" location, also one whose bucket is not the main bucket;    *)
(* final cleanup sends no delete for a key in a bucket the key was not     *)
(* read from.                                                              *)
C19_CleanupWhereRead ==
    \A i \in DOMAIN FinalDeletes :
        \A k \in DOMAIN FinalDeletes[i].keys :
            ReadFrom(FinalDeletes[i].bucket, FinalDeletes[i].keys[k])

-----------------------------------------------------------------------------
(* C20: the tile cleanup batching loop terminates.  Each turn whose delete *)
(* call returns removes min(1000, pending) keys, at least one, from the    *)
(* pending keys and goes on to the next stage exactly when none is left;   *)
(* so from inside the loop the run always comes to the next stage with     *)
(* zero pending keys, unless a delete call failed.                         *)
C20_BatchingLoopTerminates ==
    /\ [][(pc = "deleteloop" /\ pc' # "failed") =>
            /\ Len(objs) > 0
            /\ Len(objs') = Len(objs) - Min(BatchLimit, Len(objs))
            /\ Len(objs') < Len(objs)
            /\ Len(calls') = Len(calls) + 1
            /\ IsTileDelete(calls'[Len(calls')])
            /\ pc' = (IF Len(objs') = 0 THEN "gdalstats" ELSE "deleteloop")
         ]_vars
    /\ (pc = "deleteloop") ~>
           ((pc = "gdalstats" /\ objs = <<>>) \/ FailedInTileDelete)

\* the loop has just ended after three delete calls over 2500 keys
C20_Witness ==
    /\ pc = "gdalstats"
    /\ objs = <<>>
    /\ Len(TileDeletes) = 3
    /\ Len(TileBlobList) = 2500

====
